---- MODULE Spec2Model ----
(***************************************************************************)
(* A model of the retrieval notebooks:                                     *)
(*   - rag/11_fusion_retrieval.ipynb : fusion_retrieval                    *)
(*   - rag/07_context_enrichment.ipynb : split_text_to_chunks_with_indices,*)
(*       get_chunk_by_index, retrieve_with_context_overlap                 *)
(*   - rag/19_self_rag.ipynb : self_rag                                    *)
(*   - rag/14_retrieval_with_feedback.ipynb : get_user_feedback,           *)
(*       store_feedback, load_feedback_data                                *)
(*                                                                         *)
(* Numbers.  numpy's floating-point values are modelled as exact rationals *)
(* <<n, d>> in lowest terms with d > 0, plus NaN == <<0, 0>> for the value *)
(* numpy gives 0/0.  IEEE rounding is not modelled.                        *)
(*                                                                         *)
(* Indices.  Python positions are 0-based; a Python list or array is a     *)
(* TLA+ sequence, and Python position i is element i+1 of the sequence.    *)
(* Index VALUES stored by the program (sorted_indices, metadata["index"])  *)
(* keep their Python value.                                                *)
(***************************************************************************)
EXTENDS Integers, Sequences, FiniteSets, TLC

\* ------------------------------------------------------------------ bounds
\* The most documents a vector store or a BM25 corpus holds.
MaxDocs == 3

\* The longest text split, the largest chunk_size and chunk_overlap, the
\* largest num_neighbors, and the number of chunks after which a split that
\* has not ended is followed no further.
MaxTextLen == 5

MaxChunkSize == 3

MaxOverlap == 3

MaxNeighbors == 2

MaxChunks == 6

\* ------------------------------------------------------------- arithmetic
NaN == <<0, 0>>

IsNaN(x) == x[2] = 0

Abs(n) == IF n < 0 THEN -n ELSE n

RECURSIVE GCD(_, _)
GCD(a, b) == IF b = 0 THEN a ELSE GCD(b, a % b)

\* The rational n/d in lowest terms, d > 0.
Rat(n, d) ==
    LET g == GCD(Abs(n), Abs(d))
        s == IF d < 0 THEN -1 ELSE 1
    IN  <<(s * n) \div g, (s * d) \div g>>

Zero == Rat(0, 1)
One == Rat(1, 1)

FAdd(x, y) ==
    IF IsNaN(x) \/ IsNaN(y) THEN NaN
    ELSE Rat(x[1] * y[2] + y[1] * x[2], x[2] * y[2])

FSub(x, y) ==
    IF IsNaN(x) \/ IsNaN(y) THEN NaN
    ELSE Rat(x[1] * y[2] - y[1] * x[2], x[2] * y[2])

FMul(x, y) ==
    IF IsNaN(x) \/ IsNaN(y) THEN NaN
    ELSE Rat(x[1] * y[1], x[2] * y[2])

\* numpy division: 0/0 is nan (a RuntimeWarning, no exception).  The only
\* divisions of the program divide x - min by max - min, so a non-zero
\* numerator over a zero divisor does not arise.
FDiv(x, y) ==
    IF IsNaN(x) \/ IsNaN(y) \/ y[1] = 0 THEN NaN
    ELSE Rat(x[1] * y[2], x[2] * y[1])

\* IEEE comparisons: every comparison with nan is false.
FLe(x, y) == ~IsNaN(x) /\ ~IsNaN(y) /\ x[1] * y[2] <= y[1] * x[2]

FLt(x, y) == ~IsNaN(x) /\ ~IsNaN(y) /\ x[1] * y[2] < y[1] * x[2]

\* The order numpy sorts by: IEEE order on numbers, nan after every number,
\* nan tied with nan.
SortLe(x, y) == IsNaN(y) \/ FLe(x, y)

\* ------------------------------------------------------------ numpy arrays
Range(s) == {s[i] : i \in 1..Len(s)}

\* np.min, np.max of a non-empty array without nan.
NpMin(a) == CHOOSE m \in Range(a) : \A x \in Range(a) : FLe(m, x)

NpMax(a) == CHOOSE m \in Range(a) : \A x \in Range(a) : FLe(x, m)

\* array - scalar, array / scalar, scalar - array, scalar * array.
ArrSubScalar(a, c) == [i \in 1..Len(a) |-> FSub(a[i], c)]

ArrDivScalar(a, c) == [i \in 1..Len(a) |-> FDiv(a[i], c)]

ScalarSubArr(c, a) == [i \in 1..Len(a) |-> FSub(c, a[i])]

ScalarMulArr(c, a) == [i \in 1..Len(a) |-> FMul(c, a[i])]

\* numpy broadcasting of two 1-d arrays: equal lengths, or one of length 1
\* stretched to the other's length; anything else raises ValueError.
Broadcastable(a, b) == Len(a) = Len(b) \/ Len(a) = 1 \/ Len(b) = 1

ArrAdd(a, b) ==
    LET n == IF Len(a) >= Len(b) THEN Len(a) ELSE Len(b)
    IN  [i \in 1..n |-> FAdd(IF Len(a) = 1 THEN a[1] ELSE a[i],
                             IF Len(b) = 1 THEN b[1] ELSE b[i])]

\* The permutations of 1..n, as sequences.
Perms(n) == {p \in [1..n -> 1..n] : \A i, j \in 1..n : p[i] = p[j] => i = j}

Reverse(s) == [i \in 1..Len(s) |-> s[Len(s) + 1 - i]]

\* The results np.argsort(a) can give (Python positions 0..n-1): any
\* permutation that lists a in ascending sort order.  The default kind is
\* not a stable sort, so tied entries come in any order.
ArgSorts(a) ==
    {[i \in 1..Len(a) |-> p[i] - 1] : p \in
        {q \in Perms(Len(a)) : \A i \in 1..(Len(a) - 1) : SortLe(a[q[i]], a[q[i + 1]])}}

\* s[:k] for k >= 0.
Prefix(s, n) == SubSeq(s, 1, IF n < Len(s) THEN n ELSE Len(s))

\* ------------------------------------------------------------------ inputs
\* Raw vector distances and raw BM25 scores a query can produce, the blend
\* weights and the result sizes a caller passes.
DistVals == {Rat(1, 10), Rat(1, 2), Rat(9, 10)}

Bm25Vals == {Rat(1, 1), Rat(5, 1), Rat(10, 1)}

Alphas == {Rat(0, 1), Rat(1, 4), Rat(1, 2), Rat(1, 1)}

Ks == 0..(MaxDocs + 1)

\* ------------------------------------------------------------------- state
VARIABLES
    f_pc,             \* where fusion_retrieval stands
    ntotal,           \* vectorstore.index.ntotal: the chunks 1..ntotal, in corpus order
    corpus_size,      \* the number of documents of the BM25 index
    k,                \* fusion_retrieval's k
    alpha,            \* fusion_retrieval's alpha
    all_docs,         \* the chunks as similarity_search("") lists them
    raw_bm25,         \* what bm25.get_scores returned, kept as returned
    bm25_scores,      \* the local bm25_scores
    vector_results,   \* (chunk, distance) pairs, nearest to the query first
    vector_scores,    \* the local vector_scores
    combined_scores,  \* the local combined_scores
    sorted_indices,   \* the local sorted_indices (Python positions)
    f_result,         \* the list fusion_retrieval returns
    f_outcome         \* "none" | "returned" | "ValueError" | "IndexError"

fvars == <<f_pc, ntotal, corpus_size, k, alpha, all_docs, raw_bm25, bm25_scores,
           vector_results, vector_scores, combined_scores, sorted_indices,
           f_result, f_outcome>>

VARIABLES
    w_pc,               \* where the context-enrichment notebook stands
    text,               \* the document, a string
    chunk_size,         \* the split's chunk_size
    chunk_overlap,      \* the split's chunk_overlap
    start,              \* the split's local start
    chunks,             \* the split's local chunks
    w_all_docs,         \* the store's chunks as similarity_search("") lists them
    relevant_chunks,    \* what the retriever returned for the query
    num_neighbors,      \* retrieve_with_context_overlap's num_neighbors
    r_chunk_overlap,    \* retrieve_with_context_overlap's chunk_overlap
    requested,          \* every target_index passed to get_chunk_by_index, in call order
    neighbor_chunks,    \* the local neighbor_chunks of the last chunk expanded
    result_sequences,   \* the local result_sequences
    w_outcome           \* "none" | "returned" | "IndexError"

wvars == <<w_pc, text, chunk_size, chunk_overlap, start, chunks, w_all_docs,
           relevant_chunks, num_neighbors, r_chunk_overlap, requested,
           neighbor_chunks, result_sequences, w_outcome>>

VARIABLES
    rs_pc,       \* where the sorting of a score array stands
    rs_scores,   \* a combined_scores array
    rs_order,    \* np.argsort(rs_scores)[::-1]: its ranking (Python positions)
    rs_ranked,   \* the scores in the order of the ranking
    rs_again     \* the ranking of the ranked scores

rsvars == <<rs_pc, rs_scores, rs_order, rs_ranked, rs_again>>

VARIABLES
    g_pc,                \* where self_rag stands
    retrieval_decision,  \* the retrieval decision, trimmed and lower-cased
    contexts,            \* the page_content of the documents retrieved
    judged,              \* how many contexts the relevance loop has judged
    relevant_contexts,   \* the local relevant_contexts
    responses,           \* the local responses: (response, support, utility)
    best_response,       \* the local best_response, <<>> while there is none
    g_calls,             \* every chain invocation and store search, in call order
    g_returned           \* what self_rag returned, <<>> until it returns

gvars == <<g_pc, retrieval_decision, contexts, judged, relevant_contexts, responses,
           best_response, g_calls, g_returned>>

VARIABLES
    l_pc,           \* "off" | "idle" | "loaded": whether the last call was a load
    log_exists,     \* whether ./data/feedback_data.json exists
    log_file,       \* its characters
    stored,         \* every feedback passed to store_feedback, in call order
    feedback_data,  \* what the last load_feedback_data returned
    l_outcome       \* "none" | "returned" | "JSONDecodeError"

lvars == <<l_pc, log_exists, log_file, stored, feedback_data, l_outcome>>

VARIABLES
    a_pc,        \* where adjust_relevance_scores stands
    a_given,     \* metadata['relevance_score'] of docs[i] when the call was made
    a_scores,    \* metadata['relevance_score'] of docs[i] now
    a_feedback,  \* feedback_data: the 'relevance' of each record
    a_answers,   \* a_answers[i][j]: the judge's answer on docs[i] and record j
    a_returned   \* the list returned: the documents, named by their place in docs

avars == <<a_pc, a_given, a_scores, a_feedback, a_answers, a_returned>>

VARIABLES
    sc_pc,        \* where the scoring of a rescaled array stands
    sc_alpha,     \* alpha
    sc_V,         \* a distance array V
    sc_B,         \* a BM25 score array B
    sc_scaledV,   \* a * V + b
    sc_scaledB,   \* a * B + b
    sc_scores,    \* normalized V, normalized B and combined scores of (V, B)
    sc_scoresV,   \* the same of (a * V + b, B)
    sc_scoresB    \* the same of (V, a * B + b)

scvars == <<sc_pc, sc_alpha, sc_V, sc_B, sc_scaledV, sc_scaledB, sc_scores,
            sc_scoresV, sc_scoresB>>

vars == <<fvars, wvars, rsvars, gvars, lvars, avars, scvars>>

\* What each program leaves alone: the state of the others.
NotFusion == <<wvars, rsvars, gvars, lvars, avars, scvars>>

NotWindow == <<fvars, rsvars, gvars, lvars, avars, scvars>>

NotSort == <<fvars, wvars, gvars, lvars, avars, scvars>>

NotSelfRag == <<fvars, wvars, rsvars, lvars, avars, scvars>>

NotFeedback == <<fvars, wvars, rsvars, gvars, avars, scvars>>

NotAdjust == <<fvars, wvars, rsvars, gvars, lvars, scvars>>

NotRescale == <<fvars, wvars, rsvars, gvars, lvars, avars>>

\* ------------------------------------------------------- fusion_retrieval
\* The distances of vector_results, in its order (np.array([score for _, score in ...])).
ScoresOf(results) == [i \in 1..Len(results) |-> results[i][2]]

\* The normalization without its inversion: (v - min) / (max - min).
NormalizeVectorScoresNotInverted(v) ==
    ArrDivScalar(ArrSubScalar(v, NpMin(v)), FSub(NpMax(v), NpMin(v)))

\* The distances divided by their maximum alone: 1 - v / max.
NormalizeVectorScoresByMax(v) ==
    ScalarSubArr(One, ArrDivScalar(v, NpMax(v)))

\* 1 - (v - min) / (max - min)
NormalizeVectorScores(v) ==
    ScalarSubArr(One, ArrDivScalar(ArrSubScalar(v, NpMin(v)), FSub(NpMax(v), NpMin(v))))

\* The BM25 normalization inverted as the distances are: 1 - (b - min) / (max - min).
NormalizeBm25ScoresInverted(b) ==
    ScalarSubArr(One, ArrDivScalar(ArrSubScalar(b, NpMin(b)), FSub(NpMax(b), NpMin(b))))

\* (b - min) / (max - min)
NormalizeBm25Scores(b) ==
    ArrDivScalar(ArrSubScalar(b, NpMin(b)), FSub(NpMax(b), NpMin(b)))

\* alpha * vector_scores + (1 - alpha) * bm25_scores
CombineScores(a, v, b) ==
    ArrAdd(ScalarMulArr(a, v), ScalarMulArr(FSub(One, a), b))

\* The sort without its reversal: np.argsort(combined_scores).
SortedIndicesAscending(c) == ArgSorts(c)

\* The values np.argsort(combined_scores)[::-1] can take.
SortedIndices(c) == {Reverse(s) : s \in ArgSorts(c)}

\* [all_docs[i] for i in sorted_indices[:k]]
TopDocs(docs, indices, kk) ==
    [j \in 1..Len(Prefix(indices, kk)) |-> docs[indices[j] + 1]]

\* similarity_search_with_score(query, k = number of chunks): every chunk
\* with its distance, nearest first.
SearchWithScore(dist) ==
    LET n == Len(dist)
        Before(c, d) == FLt(dist[c], dist[d]) \/ (dist[c] = dist[d] /\ c < d)
        order == CHOOSE q \in Perms(n) : \A i \in 1..(n - 1) : Before(q[i], q[i + 1])
    IN  [i \in 1..n |-> <<order[i], dist[order[i]]>>]

FusionLocalsEmpty ==
    /\ k = 0
    /\ alpha = Zero
    /\ all_docs = <<>>
    /\ raw_bm25 = <<>>
    /\ bm25_scores = <<>>
    /\ vector_results = <<>>
    /\ vector_scores = <<>>
    /\ combined_scores = <<>>
    /\ sorted_indices = <<>>
    /\ f_result = <<>>
    /\ f_outcome = "none"

\* The fusion notebook is not run.
FusionOff ==
    /\ f_pc = "off"
    /\ ntotal = 0
    /\ corpus_size = 0
    /\ FusionLocalsEmpty

\* The vector store and the BM25 index exist; no call was made.  Neither can
\* be built from an empty list of chunks.
FusionInit ==
    /\ f_pc = "idle"
    /\ ntotal \in 1..MaxDocs
    /\ corpus_size \in 1..MaxDocs
    /\ FusionLocalsEmpty

\* The call and its three lookups (lines 165-168).  The query decides each
\* chunk's distance (dist) and each BM25 document's score (scores); the
\* embedding of "" decides the order of all_docs (any order);
\* similarity_search_with_score lists the chunks by ascending distance, chunks
\* at the same distance in store order.
FusionSearch ==
    /\ f_pc = "idle"
    /\ \E kk \in Ks, a \in Alphas, dist \in [1..ntotal -> DistVals],
          scores \in [1..corpus_size -> Bm25Vals], e \in Perms(ntotal) :
            /\ k' = kk
            /\ alpha' = a
            /\ all_docs' = e
            /\ raw_bm25' = scores
            /\ bm25_scores' = scores
            /\ vector_results' = SearchWithScore(dist)
    /\ f_pc' = "score"
    /\ UNCHANGED <<ntotal, corpus_size, vector_scores, combined_scores,
                   sorted_indices, f_result, f_outcome>>
    /\ UNCHANGED NotFusion

\* In-place arithmetic (a -= c, a /= c) leaves the result in the operand.
OperandAfterInPlace(a, result) == result

\* numpy's a - c and a / c build a new array, and the assignment binds the
\* local name to it: the array that was the operand keeps its values.
OperandAfter(a, result) == a

\* Normalization, blend, sort and return (lines 170-179).  Arrays numpy cannot
\* broadcast raise ValueError at the blend, before the sort; a position past
\* the end of all_docs raises IndexError at the return.
FusionRank ==
    /\ f_pc = "score"
    /\ vector_scores' = NormalizeVectorScores(ScoresOf(vector_results))
    /\ bm25_scores' = NormalizeBm25Scores(bm25_scores)
    /\ IF ~Broadcastable(vector_scores', bm25_scores')
       THEN /\ f_outcome' = "ValueError"
            /\ combined_scores' = <<>>
            /\ sorted_indices' = <<>>
            /\ f_result' = <<>>
       ELSE /\ combined_scores' = CombineScores(alpha, vector_scores', bm25_scores')
            /\ sorted_indices' \in SortedIndices(combined_scores')
            /\ IF \A j \in 1..Len(Prefix(sorted_indices', k)) :
                     sorted_indices'[j] < Len(all_docs)
               THEN /\ f_result' = TopDocs(all_docs, sorted_indices', k)
                    /\ f_outcome' = "returned"
               ELSE /\ f_result' = <<>>
                    /\ f_outcome' = "IndexError"
    /\ raw_bm25' = OperandAfter(raw_bm25, bm25_scores')
    /\ f_pc' = "done"
    /\ UNCHANGED <<ntotal, corpus_size, k, alpha, all_docs, vector_results>>
    /\ UNCHANGED NotFusion

FusionNext ==
    \/ FusionSearch
    \/ FusionRank

\* ------------------------------------------------------ context enrichment
\* A chunk: Document(page_content, metadata = {"index": ...}).
Doc(content, index) == [page_content |-> content, index |-> index]

\* get_chunk_by_index's None.
None == [page_content |-> <<>>, index |-> -1]

Max(a, b) == IF a > b THEN a ELSE b

\* Python's s[a:b]: a negative position counts from the end, every position
\* is clamped to 0..len(s).
PyPos(n, i) == IF i < 0 THEN Max(n + i, 0) ELSE (IF i > n THEN n ELSE i)

PySlice(s, a, b) == SubSeq(s, PyPos(Len(s), a) + 1, PyPos(Len(s), b))

\* get_chunk_by_index: the first chunk of all_docs whose index is target_index.
GetChunkByIndex(docs, target_index) ==
    IF \E j \in 1..Len(docs) : docs[j].index = target_index
    THEN docs[CHOOSE j \in 1..Len(docs) :
                /\ docs[j].index = target_index
                /\ \A h \in 1..(j - 1) : docs[h].index # target_index]
    ELSE None

\* start_index without its max(0, ...).
StartIndexUnclamped(current_index, neighbors) == current_index - neighbors

\* start_index taken one chunk too early.
StartIndexOneEarly(current_index, neighbors) == Max(0, current_index - neighbors - 1)

\* start_index and end_index of the window around current_index.
StartIndex(current_index, neighbors) == Max(0, current_index - neighbors)

\* end_index without its + 1: the last neighbor is left out.
EndIndexOneShort(current_index, neighbors) == current_index + neighbors

EndIndex(current_index, neighbors) == current_index + neighbors + 1

\* range(start_index, end_index), as a sequence.
PyRange(a, b) == [i \in 1..Max(b - a, 0) |-> a + i - 1]

\* The chunks found for the indices asked, in the order asked.
RECURSIVE Found(_, _)
Found(docs, indices) ==
    IF indices = <<>> THEN <<>>
    ELSE LET d == GetChunkByIndex(docs, Head(indices))
         IN  (IF d # None THEN <<d>> ELSE <<>>) \o Found(docs, Tail(indices))

\* list.sort(key = index): a stable sort, here by insertion.
RECURSIVE InsertByIndex(_, _)
InsertByIndex(sorted, d) ==
    IF sorted = <<>> THEN <<d>>
    ELSE IF sorted[Len(sorted)].index <= d.index THEN Append(sorted, d)
    ELSE Append(InsertByIndex(SubSeq(sorted, 1, Len(sorted) - 1), d), sorted[Len(sorted)])

RECURSIVE SortByIndex(_)
SortByIndex(docs) ==
    IF docs = <<>> THEN <<>>
    ELSE InsertByIndex(SortByIndex(SubSeq(docs, 1, Len(docs) - 1)), docs[Len(docs)])

\* One pass of the joining loop: drop the last chunk_overlap characters of
\* the text so far, then append the next chunk whole.
JoinNext(concatenated_text, current_chunk, overlap) ==
    LET overlap_start == Max(0, Len(concatenated_text) - overlap)
    IN  PySlice(concatenated_text, 0, overlap_start) \o current_chunk

\* The joining loop over neighbor_chunks[from..], starting from the text so far.
RECURSIVE JoinFrom(_, _, _, _)
JoinFrom(concatenated_text, neighbors, from, overlap) ==
    IF from > Len(neighbors) THEN concatenated_text
    ELSE JoinFrom(JoinNext(concatenated_text, neighbors[from].page_content, overlap),
                  neighbors, from + 1, overlap)

\* concatenated_text for a non-empty neighbor_chunks.
ConcatenatedText(neighbors, overlap) ==
    JoinFrom(neighbors[1].page_content, neighbors, 2, overlap)

\* The orders in which a store can list its chunks.
StoreOrders(docs) == {docs, Reverse(docs)}

\* What the retriever can return for a query.  The retriever is a parameter
\* of its own: it is the store's retriever, or a retriever over another
\* store, whose chunk carries an index and a text of its own.
RetrieverAnswers(docs) ==
    Range(docs) \cup {Doc(<<0>>, i) : i \in 0..(MaxChunks + MaxNeighbors)}

WindowLocalsEmpty ==
    /\ start = 0
    /\ chunks = <<>>
    /\ w_all_docs = <<>>
    /\ relevant_chunks = <<>>
    /\ num_neighbors = 0
    /\ r_chunk_overlap = 0
    /\ requested = <<>>
    /\ neighbor_chunks = <<>>
    /\ result_sequences = <<>>
    /\ w_outcome = "none"

\* The context-enrichment notebook is not run.
WindowOff ==
    /\ w_pc = "off"
    /\ text = <<>>
    /\ chunk_size = 0
    /\ chunk_overlap = 0
    /\ WindowLocalsEmpty

\* split_text_to_chunks_with_indices is entered.  The characters of the text
\* are told apart by their position, so a dropped or repeated one shows.
WindowInit ==
    /\ w_pc = "split"
    /\ \E n \in 0..MaxTextLen : text = [i \in 1..n |-> i]
    /\ chunk_size \in 0..MaxChunkSize
    /\ chunk_overlap \in 0..MaxOverlap
    /\ WindowLocalsEmpty

\* The next start taken a whole chunk further, the overlap forgotten.
NextStartWithoutOverlap(from, size, overlap) == from + size

\* start += chunk_size - chunk_overlap
NextStart(from, size, overlap) == from + (size - overlap)

\* The loop going on while start <= len(text).
SplitContinuesAtEnd(from, str) == from <= Len(str)

\* while start < len(text)
SplitContinues(from, str) == from < Len(str)

\* One pass of the split's while loop.
SplitStep ==
    /\ w_pc = "split"
    /\ SplitContinues(start, text)
    /\ Len(chunks) < MaxChunks
    /\ LET end == start + chunk_size
           chunk == PySlice(text, start, end)
       IN  chunks' = Append(chunks, Doc(chunk, Len(chunks)))
    /\ start' = NextStart(start, chunk_size, chunk_overlap)
    /\ UNCHANGED <<w_pc, text, chunk_size, chunk_overlap, w_all_docs, relevant_chunks,
                   num_neighbors, r_chunk_overlap, requested, neighbor_chunks,
                   result_sequences, w_outcome>>
    /\ UNCHANGED NotWindow

\* The split returns and FAISS.from_documents indexes its chunks; an empty
\* list cannot be indexed.
SplitReturn ==
    /\ w_pc = "split"
    /\ ~SplitContinues(start, text)
    /\ IF chunks = <<>>
       THEN /\ w_pc' = "done"
            /\ w_outcome' = "IndexError"
            /\ UNCHANGED w_all_docs
       ELSE /\ w_pc' = "indexed"
            /\ w_all_docs' \in StoreOrders(chunks)
            /\ UNCHANGED w_outcome
    /\ UNCHANGED <<text, chunk_size, chunk_overlap, start, chunks, relevant_chunks,
                   num_neighbors, r_chunk_overlap, requested, neighbor_chunks,
                   result_sequences>>
    /\ UNCHANGED NotWindow

\* retrieve_with_context_overlap is called; the retriever (k = 1) answers the
\* query with one chunk.
RetrieveRelevant ==
    /\ w_pc = "indexed"
    /\ \E d \in RetrieverAnswers(w_all_docs) : relevant_chunks' = <<d>>
    /\ num_neighbors' \in 0..MaxNeighbors
    /\ r_chunk_overlap' \in 0..MaxOverlap
    /\ w_pc' = "expand"
    /\ UNCHANGED <<text, chunk_size, chunk_overlap, start, chunks, w_all_docs, requested,
                   neighbor_chunks, result_sequences, w_outcome>>
    /\ UNCHANGED NotWindow

\* One pass of the loop over relevant_chunks: the window of the next chunk.
\* An empty neighbor_chunks raises IndexError at neighbor_chunks[0].
ExpandChunk ==
    /\ w_pc = "expand"
    /\ Len(result_sequences) < Len(relevant_chunks)
    /\ LET current_index == relevant_chunks[Len(result_sequences) + 1].index
           asked == PyRange(StartIndex(current_index, num_neighbors),
                            EndIndex(current_index, num_neighbors))
           neighbors == SortByIndex(Found(w_all_docs, asked))
       IN  /\ requested' = requested \o asked
           /\ neighbor_chunks' = neighbors
           /\ IF neighbors = <<>>
              THEN /\ w_outcome' = "IndexError"
                   /\ w_pc' = "done"
                   /\ UNCHANGED result_sequences
              ELSE /\ result_sequences' =
                        Append(result_sequences, ConcatenatedText(neighbors, r_chunk_overlap))
                   /\ UNCHANGED <<w_outcome, w_pc>>
    /\ UNCHANGED <<text, chunk_size, chunk_overlap, start, chunks, w_all_docs,
                   relevant_chunks, num_neighbors, r_chunk_overlap>>
    /\ UNCHANGED NotWindow

\* return result_sequences
RetrieveReturn ==
    /\ w_pc = "expand"
    /\ Len(result_sequences) = Len(relevant_chunks)
    /\ w_pc' = "done"
    /\ w_outcome' = "returned"
    /\ UNCHANGED <<text, chunk_size, chunk_overlap, start, chunks, w_all_docs,
                   relevant_chunks, num_neighbors, r_chunk_overlap, requested,
                   neighbor_chunks, result_sequences>>
    /\ UNCHANGED NotWindow

WindowNext ==
    \/ SplitStep
    \/ SplitReturn
    \/ RetrieveRelevant
    \/ ExpandChunk
    \/ RetrieveReturn

\* ------------------------------------------- the sort of fusion_retrieval
\* The combined scores a ranking is made of.
ScoreVals == {Zero, Rat(1, 2), One}

\* No score array is being sorted.
SortOff ==
    /\ rs_pc = "off"
    /\ rs_scores = <<>>
    /\ rs_order = <<>>
    /\ rs_ranked = <<>>
    /\ rs_again = <<>>

\* A combined_scores array of up to MaxDocs scores.
SortInit ==
    /\ rs_pc = "idle"
    /\ \E n \in 1..MaxDocs : rs_scores \in [1..n -> ScoreVals]
    /\ rs_order = <<>>
    /\ rs_ranked = <<>>
    /\ rs_again = <<>>

\* The array a ranking picks out of an array: a[indices].
Take(a, indices) == [i \in 1..Len(indices) |-> a[indices[i] + 1]]

\* sorted_indices = np.argsort(combined_scores)[::-1], and the scores in
\* that order.
SortRanking ==
    /\ rs_pc = "idle"
    /\ rs_order' \in SortedIndices(rs_scores)
    /\ rs_ranked' = Take(rs_scores, rs_order')
    /\ rs_pc' = "sorted"
    /\ UNCHANGED <<rs_scores, rs_again>>
    /\ UNCHANGED NotSort

\* The same sort, applied to the ranked scores.
SortAgain ==
    /\ rs_pc = "sorted"
    /\ rs_again' \in SortedIndices(rs_ranked)
    /\ rs_pc' = "resorted"
    /\ UNCHANGED <<rs_scores, rs_order, rs_ranked>>
    /\ UNCHANGED NotSort

SortNext ==
    \/ SortRanking
    \/ SortAgain

\* ---------------------------------------------------------------- self_rag
\* What the chains can answer: the model's words as asked for, and the same
\* with other capitals, blanks around them, or a full stop.
DecisionAnswers == {"Yes", " YES ", "No", "Yes."}

RelevanceAnswers == {"Relevant", " relevant ", "Irrelevant", "Relevant."}

SupportAnswers == {"Fully supported", " FULLY SUPPORTED ", "Partially supported",
                   "No support", "Fully supported."}

\* The responses the generation chain can give, and the utility ratings.
GeneratedResponses == {"r1", "r2"}

MaxUtility == 3

MaxContexts == 3

\* The documents a store holds, nearest to the query first.
StoreContexts == <<"c1", "c2", "c3">>

\* str.strip().lower() on the answers above.
StripLower(answer) ==
    CASE answer \in {"Yes", " YES "} -> "yes"
      [] answer = "No" -> "no"
      [] answer = "Yes." -> "yes."
      [] answer \in {"Relevant", " relevant "} -> "relevant"
      [] answer = "Irrelevant" -> "irrelevant"
      [] answer = "Relevant." -> "relevant."
      [] answer \in {"Fully supported", " FULLY SUPPORTED "} -> "fully supported"
      [] answer = "Partially supported" -> "partially supported"
      [] answer = "No support" -> "no support"
      [] answer = "Fully supported." -> "fully supported."

\* Retrieval unless the decision is 'no'.
RetrievesUnlessNo(decision) == decision # "no"

\* if retrieval_decision == 'yes'
Retrieves(decision) == decision = "yes"

\* Relevant unless judged 'irrelevant'.
IsRelevantUnlessIrrelevant(relevance) == relevance # "irrelevant"

\* Every judged context taken as relevant.
IsRelevantAlways(relevance) == TRUE

\* if relevance == 'relevant'
IsRelevant(relevance) == relevance = "relevant"

\* The key of max: (x[1] == 'fully supported', x[2]), compared as Python
\* compares tuples, False < True.
KeyLess(x, y) ==
    LET fx == x[2] = "fully supported"
        fy == y[2] = "fully supported"
    IN  \/ ~fx /\ fy
        \/ (fx <=> fy) /\ x[3] < y[3]

\* The response of the highest utility, whatever its support.
MaxByUtility(rs) ==
    rs[CHOOSE i \in 1..Len(rs) :
          /\ \A j \in 1..Len(rs) : rs[j][3] <= rs[i][3]
          /\ \A j \in 1..(i - 1) : rs[j][3] < rs[i][3]]

\* max(responses, key = ...): the first response no other response exceeds.
MaxByKey(rs) ==
    rs[CHOOSE i \in 1..Len(rs) :
          /\ \A j \in 1..Len(rs) : ~KeyLess(rs[i], rs[j])
          /\ \A j \in 1..(i - 1) : KeyLess(rs[j], rs[i])]

\* One entry of g_calls.
Call(op, context, value) == [op |-> op, context |-> context, value |-> value]

SelfRagLocalsEmpty ==
    /\ retrieval_decision = ""
    /\ contexts = <<>>
    /\ judged = 0
    /\ relevant_contexts = <<>>
    /\ responses = <<>>
    /\ best_response = <<>>
    /\ g_calls = <<>>
    /\ g_returned = <<>>

\* self_rag is not run.
SelfRagOff ==
    /\ g_pc = "off"
    /\ SelfRagLocalsEmpty

\* self_rag(query, vectorstore, top_k) is called.
SelfRagInit ==
    /\ g_pc = "decide"
    /\ SelfRagLocalsEmpty

\* Step 1: the retrieval decision, and the branch on it.
DecideRetrieval ==
    /\ g_pc = "decide"
    /\ \E answer \in DecisionAnswers :
          /\ retrieval_decision' = StripLower(answer)
          /\ g_calls' = Append(g_calls, Call("retrieval", "", StripLower(answer)))
    /\ g_pc' = IF Retrieves(retrieval_decision') THEN "search" ELSE "plain"
    /\ UNCHANGED <<contexts, judged, relevant_contexts, responses, best_response,
                   g_returned>>
    /\ UNCHANGED NotSelfRag

\* Step 2: vectorstore.similarity_search(query, k = top_k) returns the
\* nearest documents, as many as the store has up to top_k.
SearchStore ==
    /\ g_pc = "search"
    /\ \E n \in 0..MaxContexts : contexts' = Prefix(StoreContexts, n)
    /\ g_calls' = Append(g_calls, Call("search", "", ""))
    /\ g_pc' = "relevance"
    /\ UNCHANGED <<retrieval_decision, judged, relevant_contexts, responses,
                   best_response, g_returned>>
    /\ UNCHANGED NotSelfRag

\* Step 3: one pass of the relevance loop.
EvaluateRelevance ==
    /\ g_pc = "relevance"
    /\ judged < Len(contexts)
    /\ LET context == contexts[judged + 1]
       IN  \E answer \in RelevanceAnswers :
              /\ g_calls' = Append(g_calls, Call("relevance", context, StripLower(answer)))
              /\ relevant_contexts' =
                    IF IsRelevant(StripLower(answer))
                    THEN Append(relevant_contexts, context)
                    ELSE relevant_contexts
    /\ judged' = judged + 1
    /\ UNCHANGED <<g_pc, retrieval_decision, contexts, responses, best_response,
                   g_returned>>
    /\ UNCHANGED NotSelfRag

\* The relevance loop has ended with no relevant context: one generation
\* with 'No relevant context found.', returned.
GenerateWithoutContext ==
    /\ g_pc = "relevance"
    /\ judged = Len(contexts)
    /\ relevant_contexts = <<>>
    /\ \E r \in GeneratedResponses :
          /\ g_calls' = Append(g_calls, Call("generation", "No relevant context found.", r))
          /\ g_returned' = <<r>>
    /\ g_pc' = "done"
    /\ UNCHANGED <<retrieval_decision, contexts, judged, relevant_contexts, responses,
                   best_response>>
    /\ UNCHANGED NotSelfRag

\* The utility asked for before the support.
EvaluationCallsUtilityFirst(context, r, support, u) ==
    <<Call("generation", context, r), Call("utility", r, u),
      Call("support", context, support)>>

\* The calls of one pass of the loop over relevant_contexts, in their order:
\* generation_chain, support_chain, utility_chain.
EvaluationCalls(context, r, support, u) ==
    <<Call("generation", context, r), Call("support", context, support),
      Call("utility", r, u)>>

\* Steps 4 to 6: one pass of the loop over relevant_contexts: generation,
\* support, utility.
GenerateResponse ==
    /\ g_pc = "relevance"
    /\ judged = Len(contexts)
    /\ Len(responses) < Len(relevant_contexts)
    /\ LET context == relevant_contexts[Len(responses) + 1]
       IN  \E r \in GeneratedResponses, answer \in SupportAnswers, u \in 1..MaxUtility :
              /\ g_calls' = g_calls \o EvaluationCalls(context, r, StripLower(answer), u)
              /\ responses' = Append(responses, <<r, StripLower(answer), u>>)
    /\ UNCHANGED <<g_pc, retrieval_decision, contexts, judged, relevant_contexts,
                   best_response, g_returned>>
    /\ UNCHANGED NotSelfRag

\* The best response is selected and returned.
SelectBest ==
    /\ g_pc = "relevance"
    /\ judged = Len(contexts)
    /\ relevant_contexts # <<>>
    /\ Len(responses) = Len(relevant_contexts)
    /\ best_response' = MaxByKey(responses)
    /\ g_returned' = <<best_response'[1]>>
    /\ g_pc' = "done"
    /\ UNCHANGED <<retrieval_decision, contexts, judged, relevant_contexts, responses,
                   g_calls>>
    /\ UNCHANGED NotSelfRag

\* The else branch: one generation with 'No retrieval necessary.', returned.
GenerateWithoutRetrieval ==
    /\ g_pc = "plain"
    /\ \E r \in GeneratedResponses :
          /\ g_calls' = Append(g_calls, Call("generation", "No retrieval necessary.", r))
          /\ g_returned' = <<r>>
    /\ g_pc' = "done"
    /\ UNCHANGED <<retrieval_decision, contexts, judged, relevant_contexts, responses,
                   best_response>>
    /\ UNCHANGED NotSelfRag

SelfRagNext ==
    \/ DecideRetrieval
    \/ SearchStore
    \/ EvaluateRelevance
    \/ GenerateWithoutContext
    \/ GenerateResponse
    \/ SelectBest
    \/ GenerateWithoutRetrieval

\* ------------------------------------------------------------ feedback log
\* A string is a sequence of characters.  A key of the feedback dict is one
\* symbol of the model ("query"), not spelled out.
MaxFeedback == 2

Whitespace == {" ", "\n"}

\* The texts a query, a response and a comment can hold: plain, empty, with
\* a line break, with a quote, a comma and a brace, with a backslash before an
\* n, with blanks around.
Queries == {<<"a">>, <<"a", "\n", "b">>}

Answers == {<<>>, <<"\"", ",", "}">>}

Comments == {<<"a">>, <<"\\", "n">>, <<" ", "a", " ">>}

\* The ratings a user can give: numbers, whole or not.
Ratings == {Rat(1, 1), Rat(9, 2)}

\* int(x) of a number: the fraction is cut off.
IntOf(x) == IF x[1] >= 0 THEN x[1] \div x[2] ELSE -((-x[1]) \div x[2])

\* get_user_feedback
GetUserFeedback(query, response, relevance, quality, comments) ==
    [query |-> query, response |-> response, relevance |-> IntOf(relevance),
     quality |-> IntOf(quality), comments |-> comments]

\* A character written as it is, line breaks too.
EscapeExceptNewline(c) ==
    CASE c = "\"" -> <<"\\", "\"">>
      [] c = "\\" -> <<"\\", "\\">>
      [] OTHER -> <<c>>

\* json's escapes of a character of a string.
Escape(c) ==
    CASE c = "\"" -> <<"\\", "\"">>
      [] c = "\\" -> <<"\\", "\\">>
      [] c = "\n" -> <<"\\", "n">>
      [] OTHER -> <<c>>

RECURSIVE JsonEscape(_)
JsonEscape(str) ==
    IF str = <<>> THEN <<>> ELSE Escape(Head(str)) \o JsonEscape(Tail(str))

\* json.dumps of a string and of an integer 0..9.
JsonString(str) == <<"\"">> \o JsonEscape(str) \o <<"\"">>

Digits == <<"0", "1", "2", "3", "4", "5", "6", "7", "8", "9">>

JsonInt(n) == <<Digits[n + 1]>>

\* json.dump(feedback, f): the dict's items in the order of insertion,
\* separated by ", " and ": ".
JsonDumps(feedback) ==
    <<"{">> \o JsonString(<<"query">>) \o <<":", " ">> \o JsonString(feedback.query)
    \o <<",", " ">> \o JsonString(<<"response">>) \o <<":", " ">>
    \o JsonString(feedback.response)
    \o <<",", " ">> \o JsonString(<<"relevance">>) \o <<":", " ">>
    \o JsonInt(feedback.relevance)
    \o <<",", " ">> \o JsonString(<<"quality">>) \o <<":", " ">>
    \o JsonInt(feedback.quality)
    \o <<",", " ">> \o JsonString(<<"comments">>) \o <<":", " ">>
    \o JsonString(feedback.comments) \o <<"}">>

\* What a step of the parser gives: a value and the position after it, or
\* a failure.
Parsed(val, next) == [ok |-> TRUE, val |-> val, next |-> next]

Failed == [ok |-> FALSE, val |-> <<>>, next |-> 0]

RECURSIVE SkipWhitespace(_, _)
SkipWhitespace(str, i) ==
    IF i <= Len(str) /\ str[i] \in Whitespace THEN SkipWhitespace(str, i + 1) ELSE i

\* The characters of a JSON string from position i, after its opening quote.
RECURSIVE ScanString(_, _, _)
ScanString(str, i, acc) ==
    IF i > Len(str) THEN Failed
    ELSE IF str[i] = "\"" THEN Parsed(acc, i + 1)
    ELSE IF str[i] = "\n" THEN Failed
    ELSE IF str[i] = "\\"
         THEN IF i + 1 > Len(str) THEN Failed
              ELSE IF str[i + 1] = "\"" THEN ScanString(str, i + 2, Append(acc, "\""))
              ELSE IF str[i + 1] = "\\" THEN ScanString(str, i + 2, Append(acc, "\\"))
              ELSE IF str[i + 1] = "n" THEN ScanString(str, i + 2, Append(acc, "\n"))
              ELSE Failed
    ELSE ScanString(str, i + 1, Append(acc, str[i]))

ParseString(str, i) ==
    IF i <= Len(str) /\ str[i] = "\"" THEN ScanString(str, i + 1, <<>>) ELSE Failed

\* A value: a string or an integer of one digit.
ParseValue(str, i) ==
    IF i > Len(str) THEN Failed
    ELSE IF str[i] = "\"" THEN ParseString(str, i)
    ELSE IF \E n \in 0..9 : Digits[n + 1] = str[i]
         THEN Parsed((CHOOSE n \in 0..9 : Digits[n + 1] = str[i]), i + 1)
    ELSE Failed

\* The members of an object from position i: "key": value, ... }
RECURSIVE ParseMembers(_, _, _)
ParseMembers(str, i, acc) ==
    LET key == ParseString(str, SkipWhitespace(str, i))
    IN  IF ~key.ok \/ Len(key.val) # 1 THEN Failed
        ELSE LET colon == SkipWhitespace(str, key.next)
             IN  IF colon > Len(str) \/ str[colon] # ":" THEN Failed
                 ELSE LET value == ParseValue(str, SkipWhitespace(str, colon + 1))
                      IN  IF ~value.ok THEN Failed
                          ELSE LET after == SkipWhitespace(str, value.next)
                                   dict == (key.val[1] :> value.val) @@ acc
                               IN  IF after > Len(str) THEN Failed
                                   ELSE IF str[after] = "," 
                                        THEN ParseMembers(str, after + 1, dict)
                                   ELSE IF str[after] = "}"
                                        THEN Parsed(dict, after + 1)
                                   ELSE Failed

\* json.loads of an object: nothing but blanks may follow it.
JsonLoads(str) ==
    LET open == SkipWhitespace(str, 1)
    IN  IF open > Len(str) \/ str[open] # "{" THEN Failed
        ELSE LET members == ParseMembers(str, open + 1, <<>>)
             IN  IF members.ok /\ SkipWhitespace(str, members.next) > Len(str)
                 THEN members
                 ELSE Failed

\* str.strip()
RECURSIVE StripRight(_)
StripRight(str) ==
    IF str # <<>> /\ str[Len(str)] \in Whitespace
    THEN StripRight(SubSeq(str, 1, Len(str) - 1))
    ELSE str

Strip(str) == StripRight(SubSeq(str, SkipWhitespace(str, 1), Len(str)))

\* for line in f: the lines of a file, each with its line break.
RECURSIVE FileLines(_)
FileLines(file) ==
    IF file = <<>> THEN <<>>
    ELSE LET breaks == {i \in 1..Len(file) : file[i] = "\n"}
             end == IF breaks = {} THEN Len(file)
                    ELSE CHOOSE i \in breaks : \A j \in breaks : i <= j
         IN  <<SubSeq(file, 1, end)>> \o FileLines(SubSeq(file, end + 1, Len(file)))

\* The feedbacks a caller can store.
Feedbacks ==
    {GetUserFeedback(q, r, rel, Rat(5, 1), c) :
        q \in Queries, r \in Answers, rel \in Ratings, c \in Comments}

\* The feedback notebook is not run.
FeedbackOff ==
    /\ l_pc = "off"
    /\ log_exists = FALSE
    /\ log_file = <<>>
    /\ stored = <<>>
    /\ feedback_data = <<>>
    /\ l_outcome = "none"

\* The log is absent, or present and empty.
FeedbackInit ==
    /\ l_pc = "idle"
    /\ log_exists \in BOOLEAN
    /\ log_file = <<>>
    /\ stored = <<>>
    /\ feedback_data = <<>>
    /\ l_outcome = "none"

\* store_feedback(feedback): the file is opened to append (and made if
\* absent), the dict is dumped and a line break written.
StoreFeedback ==
    /\ l_pc \in {"idle", "loaded"}
    /\ Len(stored) < MaxFeedback
    /\ \E feedback \in Feedbacks :
          /\ log_file' = log_file \o JsonDumps(feedback) \o <<"\n">>
          /\ stored' = Append(stored, feedback)
    /\ log_exists' = TRUE
    /\ l_pc' = "idle"
    /\ UNCHANGED <<feedback_data, l_outcome>>
    /\ UNCHANGED NotFeedback

\* load_feedback_data(): every line stripped and parsed; an absent file
\* gives the empty list.
LoadFeedbackData ==
    /\ l_pc \in {"idle", "loaded"}
    /\ LET lines == IF log_exists THEN FileLines(log_file) ELSE <<>>
           loaded == [i \in 1..Len(lines) |-> JsonLoads(Strip(lines[i]))]
       IN  IF \A i \in 1..Len(lines) : loaded[i].ok
           THEN /\ feedback_data' = [i \in 1..Len(lines) |-> loaded[i].val]
                /\ l_outcome' = "returned"
           ELSE /\ l_outcome' = "JSONDecodeError"
                /\ UNCHANGED feedback_data
    /\ l_pc' = "loaded"
    /\ UNCHANGED <<log_exists, log_file, stored>>
    /\ UNCHANGED NotFeedback

FeedbackNext ==
    \/ StoreFeedback
    \/ LoadFeedbackData

\* ------------------------------------------------------ rescaled scores
\* The scoring of fusion_retrieval (normalization, combination, sort) run on
\* a pair of arrays, then with the distances rescaled, then with the BM25
\* scores rescaled.
\* The factors a > 0 and the shifts b of a rescaling a * x + b.
Scales == {Rat(1, 2), Rat(3, 1)}

Shifts == {Rat(-1, 1), Rat(0, 1), Rat(2, 1)}

\* a * x + b on every entry.
Rescaled(a, b, x) == [i \in 1..Len(x) |-> FAdd(FMul(a, x[i]), b)]

\* The arrays of n entries over a set of values.
ArraysOf(values, n) == [1..n -> values]

\* No scores computed.
NoScores == [vector |-> <<>>, bm25 |-> <<>>, combined |-> <<>>, ranking |-> <<>>]

\* np.argsort is a function of its argument: on combined scores it was given
\* before it returns what it returned then, otherwise one of the orders the
\* sort can give.
RankingsGiven(c, earlier) ==
    IF \E e \in earlier : e.combined = c
    THEN {e.ranking : e \in {x \in earlier : x.combined = c}}
    ELSE SortedIndices(c)

\* The normalized scores, the combined scores and the sorted positions the
\* scoring gives for distances v and BM25 scores b.
FusionScores(a, v, b, earlier) ==
    LET vector == NormalizeVectorScores(v)
        bm25 == NormalizeBm25Scores(b)
        combined == CombineScores(a, vector, bm25)
    IN  {[vector |-> vector, bm25 |-> bm25, combined |-> combined, ranking |-> r] :
            r \in RankingsGiven(combined, earlier)}

\* No rescaled array is being scored.
RescaleOff ==
    /\ sc_pc = "off"
    /\ sc_alpha = Zero
    /\ sc_V = <<>>
    /\ sc_B = <<>>
    /\ sc_scaledV = <<>>
    /\ sc_scaledB = <<>>
    /\ sc_scores = NoScores
    /\ sc_scoresV = NoScores
    /\ sc_scoresB = NoScores

\* Two arrays over the same 2..MaxDocs candidates, and their rescalings.
RescaleInit ==
    /\ sc_pc = "score"
    /\ sc_alpha \in Alphas
    /\ \E n \in 2..MaxDocs :
          /\ sc_V \in ArraysOf(DistVals, n)
          /\ sc_B \in ArraysOf(Bm25Vals, n)
    /\ \E a \in Scales, b \in Shifts :
          /\ sc_scaledV = Rescaled(a, b, sc_V)
          /\ sc_scaledB = Rescaled(a, b, sc_B)
    /\ sc_scores = NoScores
    /\ sc_scoresV = NoScores
    /\ sc_scoresB = NoScores

\* The scoring of (V, B).
ScoreGiven ==
    /\ sc_pc = "score"
    /\ sc_scores' \in FusionScores(sc_alpha, sc_V, sc_B, {})
    /\ sc_pc' = "vector"
    /\ UNCHANGED <<sc_alpha, sc_V, sc_B, sc_scaledV, sc_scaledB, sc_scoresV, sc_scoresB>>
    /\ UNCHANGED NotRescale

\* The scoring of (a * V + b, B).
ScoreRescaledVector ==
    /\ sc_pc = "vector"
    /\ sc_scoresV' \in FusionScores(sc_alpha, sc_scaledV, sc_B, {sc_scores})
    /\ sc_pc' = "bm25"
    /\ UNCHANGED <<sc_alpha, sc_V, sc_B, sc_scaledV, sc_scaledB, sc_scores, sc_scoresB>>
    /\ UNCHANGED NotRescale

\* The scoring of (V, a * B + b).
ScoreRescaledBm25 ==
    /\ sc_pc = "bm25"
    /\ sc_scoresB' \in FusionScores(sc_alpha, sc_V, sc_scaledB, {sc_scores, sc_scoresV})
    /\ sc_pc' = "done"
    /\ UNCHANGED <<sc_alpha, sc_V, sc_B, sc_scaledV, sc_scaledB, sc_scores, sc_scoresV>>
    /\ UNCHANGED NotRescale

RescaleNext ==
    \/ ScoreGiven
    \/ ScoreRescaledVector
    \/ ScoreRescaledBm25

\* ------------------------------------------------ adjust_relevance_scores
MaxRanked == 3

MaxRecords == 2

\* The relevance_score a retrieved document carries, and the relevance a
\* feedback record holds (a scale of 1 to 5, 3 neutral).
RelevanceScores == {Rat(1, 3), One}

FeedbackRelevances == {1, 3, 5}

\* What the judge can answer: the words asked for, and 'yes'.
JudgeAnswers == {"Yes", "yes", "No"}

\* if result == 'yes'
CountsAsRelevant(answer) == answer = "yes"

\* sum(...) of a list of integers.
RECURSIVE SumOf(_)
SumOf(ns) == IF ns = <<>> THEN 0 ELSE Head(ns) + SumOf(Tail(ns))

\* The records of feedback_data the answers make relevant_feedback of.
RelevantFeedback(records, answers) ==
    SelectSeq([j \in 1..Len(records) |-> <<records[j], answers[j]>>],
              LAMBDA p : CountsAsRelevant(p[2]))

\* The score after the adjustment: multiplied by avg_relevance / 3 when
\* relevant_feedback is not empty.
AdjustedScore(score, records, answers) ==
    LET relevant_feedback == RelevantFeedback(records, answers)
    IN  IF relevant_feedback = <<>> THEN score
        ELSE LET avg_relevance ==
                     FDiv(Rat(SumOf([j \in 1..Len(relevant_feedback) |->
                                        relevant_feedback[j][1]]), 1),
                          Rat(Len(relevant_feedback), 1))
             IN  FMul(score, FDiv(avg_relevance, Rat(3, 1)))

\* A sort that puts the later of two documents of equal score first.
RECURSIVE InsertByScoreAfterEquals(_, _, _)
InsertByScoreAfterEquals(ranked, d, scores) ==
    IF ranked = <<>> THEN <<d>>
    ELSE IF FLt(scores[ranked[Len(ranked)]], scores[d])
              \/ scores[ranked[Len(ranked)]] = scores[d]
         THEN Append(InsertByScoreAfterEquals(SubSeq(ranked, 1, Len(ranked) - 1), d, scores),
                     ranked[Len(ranked)])
         ELSE Append(ranked, d)

RECURSIVE SortedLaterFirst(_, _)
SortedLaterFirst(n, scores) ==
    IF n = 0 THEN <<>>
    ELSE InsertByScoreAfterEquals(SortedLaterFirst(n - 1, scores), n, scores)

\* sorted(docs, key = relevance_score, reverse = True): a stable sort, the
\* documents of equal score in their order in docs.  By insertion: document
\* d goes before the documents of a lower score only.
RECURSIVE InsertByScore(_, _, _)
InsertByScore(ranked, d, scores) ==
    IF ranked = <<>> THEN <<d>>
    ELSE IF FLt(scores[ranked[Len(ranked)]], scores[d])
         THEN Append(InsertByScore(SubSeq(ranked, 1, Len(ranked) - 1), d, scores),
                     ranked[Len(ranked)])
         ELSE Append(ranked, d)

RECURSIVE SortedByScore(_, _)
SortedByScore(n, scores) ==
    IF n = 0 THEN <<>>
    ELSE InsertByScore(SortedByScore(n - 1, scores), n, scores)

\* adjust_relevance_scores is not run.
AdjustOff ==
    /\ a_pc = "off"
    /\ a_given = <<>>
    /\ a_scores = <<>>
    /\ a_feedback = <<>>
    /\ a_answers = <<>>
    /\ a_returned = <<>>

\* adjust_relevance_scores(query, docs, feedback_data) is called with
\* documents that carry a relevance_score.
AdjustInit ==
    /\ a_pc = "adjust"
    /\ \E n \in 0..MaxRanked : a_given \in [1..n -> RelevanceScores]
    /\ a_scores = a_given
    /\ \E m \in 0..MaxRecords : a_feedback \in [1..m -> FeedbackRelevances]
    /\ a_answers = <<>>
    /\ a_returned = <<>>

\* One pass of the loop over docs: the judge is asked about every feedback
\* record, and the document's score is adjusted in place.
AdjustDocument ==
    /\ a_pc = "adjust"
    /\ Len(a_answers) < Len(a_scores)
    /\ \E answers \in [1..Len(a_feedback) -> JudgeAnswers] :
          LET doc == Len(a_answers) + 1
          IN  /\ a_answers' = Append(a_answers, answers)
              /\ a_scores' = [a_scores EXCEPT
                                ![doc] = AdjustedScore(a_scores[doc], a_feedback, answers)]
    /\ UNCHANGED <<a_pc, a_given, a_feedback, a_returned>>
    /\ UNCHANGED NotAdjust

\* return sorted(docs, key = ..., reverse = True)
AdjustReturn ==
    /\ a_pc = "adjust"
    /\ Len(a_answers) = Len(a_scores)
    /\ a_returned' = SortedByScore(Len(a_scores), a_scores)
    /\ a_pc' = "done"
    /\ UNCHANGED <<a_given, a_scores, a_feedback, a_answers>>
    /\ UNCHANGED NotAdjust

AdjustNext ==
    \/ AdjustDocument
    \/ AdjustReturn

\* ---------------------------------------------------------- specifications
\* Each notebook is a program of its own.
FusionStart ==
    FusionInit /\ WindowOff /\ SortOff /\ SelfRagOff /\ FeedbackOff /\ AdjustOff /\ RescaleOff

WindowStart ==
    WindowInit /\ FusionOff /\ SortOff /\ SelfRagOff /\ FeedbackOff /\ AdjustOff /\ RescaleOff

SortStart ==
    SortInit /\ FusionOff /\ WindowOff /\ SelfRagOff /\ FeedbackOff /\ AdjustOff /\ RescaleOff

SelfRagStart ==
    SelfRagInit /\ FusionOff /\ WindowOff /\ SortOff /\ FeedbackOff /\ AdjustOff /\ RescaleOff

FeedbackStart ==
    FeedbackInit /\ FusionOff /\ WindowOff /\ SortOff /\ SelfRagOff /\ AdjustOff /\ RescaleOff

AdjustStart ==
    AdjustInit /\ FusionOff /\ WindowOff /\ SortOff /\ SelfRagOff /\ FeedbackOff /\ RescaleOff

RescaleStart ==
    RescaleInit /\ FusionOff /\ WindowOff /\ SortOff /\ SelfRagOff /\ FeedbackOff /\ AdjustOff

FusionSpec == FusionStart /\ [][FusionNext]_vars

WindowSpec == WindowStart /\ [][WindowNext]_vars

\* The split on its own: its loop, run until it returns.
SplitNext ==
    \/ SplitStep
    \/ SplitReturn

\* A pass of the loop that can be made is made.
SplitFairSpec == WindowStart /\ [][SplitNext]_vars /\ WF_vars(SplitNext)

SortSpec == SortStart /\ [][SortNext]_vars

SelfRagSpec == SelfRagStart /\ [][SelfRagNext]_vars

\* self_rag runs on: each chain answers, and the step after it is taken.
SelfRagFairSpec == SelfRagSpec /\ WF_vars(SelfRagNext)

FeedbackSpec == FeedbackStart /\ [][FeedbackNext]_vars

AdjustSpec == AdjustStart /\ [][AdjustNext]_vars

RescaleSpec == RescaleStart /\ [][RescaleNext]_vars

Init ==
    \/ FusionStart
    \/ WindowStart
    \/ SortStart
    \/ SelfRagStart
    \/ FeedbackStart
    \/ AdjustStart
    \/ RescaleStart

Next ==
    \/ FusionNext
    \/ WindowNext
    \/ SortNext
    \/ SelfRagNext
    \/ FeedbackNext
    \/ AdjustNext
    \/ RescaleNext

Spec == Init /\ [][Next]_vars

\* ------------------------------------------------- fusion_retrieval: claims
\* The raw distance array V: the distances of vector_results, in its order.
RawV == ScoresOf(vector_results)

\* The raw BM25 array B is raw_bm25.  A score array is non-degenerate when its
\* maximum exceeds its minimum.
NonDegenerate(a) == Len(a) > 0 /\ NpMax(a) # NpMin(a)

\* Both arrays are over the same n chunks, as when the store and the BM25
\* index were built from the same list.
SameLength == ntotal = corpus_size

\* The call got as far as the normalized scores, the combined scores, the sort.
Normalized == f_pc = "done"

Combined == f_pc = "done" /\ f_outcome # "ValueError"

Sorted == f_pc = "done" /\ f_outcome # "ValueError"

InUnit(x) == FLe(Zero, x) /\ FLe(x, One)

\* The distance of a chunk to the query, and its BM25 score (BM25 document j
\* is chunk j of the corpus).
DistOf(doc) == (CHOOSE r \in Range(vector_results) : r[1] = doc)[2]

Bm25Of(doc) == raw_bm25[doc]

\* An array listed from its largest value down.
Descending(a) == CHOOSE d \in [1..Len(a) -> Range(a)] :
    \E p \in Perms(Len(a)) :
        /\ d = [i \in 1..Len(a) |-> a[p[i]]]
        /\ \A i \in 1..(Len(a) - 1) : FLe(d[i + 1], d[i])

MinOf(a, b) == IF a < b THEN a ELSE b

\* C1: for every position i, the distance at position i, the BM25 score at
\* position i and the chunk all_docs[i] belong to the same chunk: the three
\* lists are over the same chunks in the same order.
C1_SameCandidateOrder ==
    (SameLength /\ f_pc # "idle") =>
        \A i \in 1..ntotal : vector_results[i][1] = all_docs[i] /\ all_docs[i] = i

\* C2: with alpha = 1 and non-degenerate V and B of equal length, the chunks
\* returned are the nearest chunks, in ascending order of distance: the j-th
\* chunk returned has the j-th smallest distance, for every k.
C2_AlphaOneIsVectorRanking ==
    (f_outcome = "returned" /\ SameLength /\ alpha = One
        /\ NonDegenerate(RawV) /\ NonDegenerate(raw_bm25)) =>
        /\ Len(f_result) = MinOf(k, ntotal)
        /\ \A j \in 1..Len(f_result) : DistOf(f_result[j]) = RawV[j]

\* C3: with alpha = 0 and non-degenerate V and B of equal length, the chunks
\* returned are the best BM25 chunks, in descending order of BM25 score: the
\* j-th chunk returned has the j-th largest BM25 score, for every k.
C3_AlphaZeroIsBm25Ranking ==
    (f_outcome = "returned" /\ SameLength /\ alpha = Zero
        /\ NonDegenerate(RawV) /\ NonDegenerate(raw_bm25)) =>
        /\ Len(f_result) = MinOf(k, ntotal)
        /\ \A j \in 1..Len(f_result) : Bm25Of(f_result[j]) = Descending(raw_bm25)[j]

\* C4: for non-degenerate V and B of equal length and every alpha, every
\* normalized vector score, every normalized BM25 score and every combined
\* score s_i = alpha * v_i' + (1 - alpha) * b_i' lies in [0, 1]; a position of
\* minimum distance and maximum BM25 score scores exactly 1, a position of
\* maximum distance and minimum BM25 score exactly 0.
C4_ScoresInUnitInterval ==
    (SameLength /\ NonDegenerate(RawV) /\ NonDegenerate(raw_bm25)) =>
        /\ Normalized =>
            \A i \in 1..ntotal : InUnit(vector_scores[i]) /\ InUnit(bm25_scores[i])
        /\ Combined =>
            \A i \in 1..ntotal :
                /\ InUnit(combined_scores[i])
                /\ combined_scores[i] =
                     FAdd(FMul(alpha, vector_scores[i]),
                          FMul(FSub(One, alpha), bm25_scores[i]))
                /\ (RawV[i] = NpMin(RawV) /\ raw_bm25[i] = NpMax(raw_bm25))
                     => combined_scores[i] = One
                /\ (RawV[i] = NpMax(RawV) /\ raw_bm25[i] = NpMin(raw_bm25))
                     => combined_scores[i] = Zero

\* A best, a worst and a middling position, scored with an uneven blend.
C4_Witness ==
    /\ Combined /\ SameLength /\ NonDegenerate(RawV) /\ NonDegenerate(raw_bm25)
    /\ alpha = Rat(1, 4)
    /\ \E i, j, m \in 1..ntotal :
        /\ RawV[i] = NpMin(RawV) /\ raw_bm25[i] = NpMax(raw_bm25)
        /\ RawV[j] = NpMax(RawV) /\ raw_bm25[j] = NpMin(raw_bm25)
        /\ FLt(Zero, combined_scores[m]) /\ FLt(combined_scores[m], One)

\* C5: for n chunks and every k >= 0, exactly min(k, n) distinct chunks are
\* returned, in non-increasing order of combined score, and every position
\* returned has a combined score >= that of every position not returned.
C5_TopK ==
    (f_pc = "done" /\ SameLength) =>
        /\ f_outcome = "returned"
        /\ Len(f_result) = MinOf(k, ntotal)
        /\ \A i, j \in 1..Len(f_result) : f_result[i] = f_result[j] => i = j
        /\ \A j \in 1..Len(f_result) : f_result[j] = all_docs[sorted_indices[j] + 1]
        /\ \A j \in 1..(Len(f_result) - 1) :
             FLe(combined_scores[sorted_indices[j + 1] + 1],
                 combined_scores[sorted_indices[j] + 1])
        /\ \A j \in 1..Len(f_result) : \A r \in (Len(f_result) + 1)..ntotal :
             FLe(combined_scores[sorted_indices[r] + 1],
                 combined_scores[sorted_indices[j] + 1])

\* C5 holds whenever the combined scores are numbers.
C5_TopKOfNumbers ==
    (\A i \in 1..Len(combined_scores) : ~IsNaN(combined_scores[i])) => C5_TopK

\* C6: V = [0.1, 0.5, 0.9], B = [10, 5, 1], alpha = 0.5 give the normalized
\* vector scores [1, 1/2, 0], the normalized BM25 scores [1, 4/9, 0], the
\* combined scores [1, 17/36, 0] and the order of positions [0, 1, 2].
C6_Example ==
    (f_pc # "idle" /\ RawV = <<Rat(1, 10), Rat(1, 2), Rat(9, 10)>>
        /\ raw_bm25 = <<Rat(10, 1), Rat(5, 1), Rat(1, 1)>> /\ alpha = Rat(1, 2)) =>
        /\ Normalized =>
            /\ vector_scores = <<One, Rat(1, 2), Zero>>
            /\ bm25_scores = <<One, Rat(4, 9), Zero>>
        /\ Combined => combined_scores = <<One, Rat(17, 36), Zero>>
        /\ Sorted => sorted_indices = <<0, 1, 2>>

\* The example, run to its return.
C6_Witness ==
    /\ f_outcome = "returned" /\ k = 3
    /\ RawV = <<Rat(1, 10), Rat(1, 2), Rat(9, 10)>>
    /\ raw_bm25 = <<Rat(10, 1), Rat(5, 1), Rat(1, 1)>> /\ alpha = Rat(1, 2)
    /\ sorted_indices = <<0, 1, 2>>

\* C7: when V or B has zero range, fusion does not crash and no undefined
\* value appears: every normalized score of the zero-range array is the
\* midpoint 1/2, every score is a number, and a ranking is returned.
C7_DegenerateFallback ==
    (SameLength /\ Normalized /\ (~NonDegenerate(RawV) \/ ~NonDegenerate(raw_bm25))) =>
        /\ \A i \in 1..ntotal : ~IsNaN(vector_scores[i]) /\ ~IsNaN(bm25_scores[i])
        /\ ~NonDegenerate(RawV) => \A i \in 1..ntotal : vector_scores[i] = Rat(1, 2)
        /\ ~NonDegenerate(raw_bm25) => \A i \in 1..ntotal : bm25_scores[i] = Rat(1, 2)
        /\ Combined => \A i \in 1..ntotal : ~IsNaN(combined_scores[i])
        /\ f_pc = "done" => f_outcome = "returned"

\* C8: when the number of vector results differs from the number of BM25
\* scores, fusion_retrieval ends in an error and returns no ranking.
C8_MismatchNeverReturns ==
    (ntotal # corpus_size) => ~(f_outcome = "returned" /\ Len(f_result) > 0)

\* ---------------------------------------------- context enrichment: claims
\* Where chunk i of the split starts and ends in the text, for
\* chunk_overlap < chunk_size.
ChunkStart(i) == i * (chunk_size - chunk_overlap)

ChunkEnd(i) == MinOf(Len(text), ChunkStart(i) + chunk_size)

\* The window returned for the j-th relevant chunk.
WindowOf(j) == result_sequences[j]

\* The retriever is the store's: every chunk it returned is a chunk of the store.
RetrievedFromStore ==
    \A j \in 1..Len(relevant_chunks) : relevant_chunks[j] \in Range(w_all_docs)

\* C9: for chunks split with 0 <= chunk_overlap < chunk_size and joined with
\* the same chunk_overlap, the window of chunk c with radius r is the text from
\* the start of chunk max(0, c - r) to the end of chunk min(N - 1, c + r): no
\* character is repeated and none is dropped.
C9_WindowIsContiguousText ==
    (RetrievedFromStore /\ chunk_overlap < chunk_size
        /\ r_chunk_overlap = chunk_overlap) =>
        \A j \in 1..Len(result_sequences) :
            LET c == relevant_chunks[j].index
                lo == Max(0, c - num_neighbors)
                hi == MinOf(Len(chunks) - 1, c + num_neighbors)
            IN  WindowOf(j) = PySlice(text, ChunkStart(lo), ChunkEnd(hi))

\* C10: with num_neighbors = 0 the window of a chunk is that chunk's
\* page_content, unchanged, for every chunk_overlap, and the call returns one
\* window for each relevant chunk.
C10_RadiusZeroIsTheChunk ==
    (RetrievedFromStore /\ num_neighbors = 0) =>
        /\ \A j \in 1..Len(result_sequences) :
             WindowOf(j) = relevant_chunks[j].page_content
        /\ w_pc = "done" /\ relevant_chunks # <<>> =>
             /\ w_outcome = "returned"
             /\ Len(result_sequences) = Len(relevant_chunks)

\* A chunk with chunks on both sides, windowed with radius 0 and a positive
\* chunk_overlap.
C10_Witness ==
    /\ w_outcome = "returned"
    /\ RetrievedFromStore
    /\ num_neighbors = 0
    /\ r_chunk_overlap > 0
    /\ Len(result_sequences) = 1
    /\ relevant_chunks[1].index > 0
    /\ relevant_chunks[1].index < Len(chunks) - 1
    /\ Len(relevant_chunks[1].page_content) > 1
    /\ WindowOf(1) = relevant_chunks[1].page_content

\* The indices of the chunks of a list, in the list's order.
IndicesOf(docs) == [i \in 1..Len(docs) |-> docs[i].index]

\* C11: for every target index c >= 0 and every radius, no index below 0 is
\* passed to get_chunk_by_index, and for c = 0 the first index passed is 0.
C11_NoIndexBelowZero ==
    /\ \A i \in 1..Len(requested) : requested[i] >= 0
    /\ (requested # <<>> /\ relevant_chunks[1].index = 0) => requested[1] = 0

\* The first chunk is retrieved with a positive radius and its window returned.
C11_Witness ==
    /\ w_outcome = "returned"
    /\ relevant_chunks[1].index = 0
    /\ num_neighbors > 0
    /\ RetrievedFromStore
    /\ Len(requested) = num_neighbors + 1
    /\ requested[1] = 0

\* C12: for the store's chunks 0..N-1, target c and radius r, the window is
\* built from exactly the chunks max(0, c-r) .. min(N-1, c+r), each once and
\* in ascending order of index; the indices above N-1 are asked for, found
\* missing and skipped, and the window is returned.
C12_WindowChunks ==
    (RetrievedFromStore /\ w_pc \in {"expand", "done"} /\ requested # <<>>) =>
        LET c  == relevant_chunks[1].index
            lo == Max(0, c - num_neighbors)
            hi == MinOf(Len(chunks) - 1, c + num_neighbors)
        IN  /\ IndicesOf(neighbor_chunks) = PyRange(lo, hi + 1)
            /\ \A i \in 1..Len(neighbor_chunks) :
                 neighbor_chunks[i] = GetChunkByIndex(w_all_docs, lo + i - 1)
            /\ Len(result_sequences) = 1
            /\ result_sequences[1] = ConcatenatedText(neighbor_chunks, r_chunk_overlap)
            /\ w_outcome # "IndexError"

\* The window of the last chunk of three, with a radius that reaches below
\* index 0 and above index N-1, listed by a store in descending order.
C12_Witness ==
    /\ w_outcome = "returned"
    /\ RetrievedFromStore
    /\ Len(chunks) = 3
    /\ w_all_docs = Reverse(chunks)
    /\ relevant_chunks[1].index = 2
    /\ num_neighbors = 2
    /\ requested = <<0, 1, 2, 3, 4>>
    /\ IndicesOf(neighbor_chunks) = <<0, 1, 2>>

\* C13: window reconstruction has no failure outcome: for every chunk the
\* retriever returns (it carries an index) and every radius, the call returns
\* a string for that chunk, also when no chunk of the range is in the store.
C13_NoFailureOutcome ==
    (w_pc = "done" /\ relevant_chunks # <<>>) =>
        /\ w_outcome = "returned"
        /\ Len(result_sequences) = Len(relevant_chunks)

\* C14: for chunks of the splitter (0 <= chunk_overlap < chunk_size, joined
\* with the same chunk_overlap), every chunk c of the store and every radius,
\* the window returned for c contains the text of chunk c as a contiguous
\* substring.
C14_WindowContainsChunk ==
    (RetrievedFromStore /\ chunk_overlap < chunk_size
        /\ r_chunk_overlap = chunk_overlap) =>
        \A j \in 1..Len(result_sequences) :
            LET own == relevant_chunks[j].page_content
                win == WindowOf(j)
            IN  \E a \in 0..(Len(win) - Len(own)) :
                    SubSeq(win, a + 1, a + Len(own)) = own

\* ------------------------------------------------------- the sort: claims
\* C15: sorting a ranking again leaves its order as it is: the ranking of
\* the ranked scores is 0, 1, .., n-1, for every score array, tied scores
\* included.
C15_ResortIsIdempotent ==
    (rs_pc = "resorted") => rs_again = PyRange(0, Len(rs_ranked))

\* Without tied scores the ranking of the ranked scores is 0, 1, .., n-1.
C15_ResortWithoutTies ==
    (rs_pc = "resorted"
        /\ \A i, j \in 1..Len(rs_scores) : rs_scores[i] = rs_scores[j] => i = j) =>
        rs_again = PyRange(0, Len(rs_ranked))

\* ------------------------------------------------------- purity: claims
\* C16: a call of fusion_retrieval leaves the stores' sizes, k, alpha, the
\* scores the BM25 index gave and the lists the vector store gave as they
\* were; a call of retrieve_with_context_overlap leaves the text, the chunk
\* sequence (texts and indices), the store's list, the retrieved chunks and
\* its parameters as they were; in every outcome.
C16_CallsArePure ==
    [][/\ (f_pc = "score") =>
             UNCHANGED <<ntotal, corpus_size, k, alpha, raw_bm25, all_docs, vector_results>>
       /\ (w_pc \in {"indexed", "expand"}) =>
             UNCHANGED <<text, chunk_size, chunk_overlap, chunks, w_all_docs>>
       /\ (w_pc = "expand") =>
             UNCHANGED <<relevant_chunks, num_neighbors, r_chunk_overlap>>]_vars

\* A fusion call has returned a ranking made of normalized scores that
\* differ from the scores it was given.
C16_Witness ==
    /\ f_outcome = "returned"
    /\ f_result # <<>>
    /\ bm25_scores # raw_bm25
    /\ raw_bm25 = <<Rat(10, 1), Rat(5, 1), Rat(1, 1)>>

\* ------------------------------------------------------- self_rag: claims
\* The calls made so far of one kind.
CallsOf(op) == {i \in 1..Len(g_calls) : g_calls[i].op = op}

\* The relevance chain judged the context 'relevant'; it judged it otherwise.
JudgedRelevant(c) ==
    \E i \in CallsOf("relevance") :
        g_calls[i].context = c /\ g_calls[i].value = "relevant"

JudgedOtherwise(c) ==
    \E i \in CallsOf("relevance") :
        g_calls[i].context = c /\ g_calls[i].value # "relevant"

FullySupported(x) == x[2] = "fully supported"

\* C17: when the retrieval decision, trimmed and lower-cased, is not 'yes',
\* the store is never searched and no relevance, support or utility call is
\* made; the run makes one generation call, with the context
\* 'No retrieval necessary.', and returns its response.
C17_NoRetrievalBranch ==
    (retrieval_decision # "" /\ retrieval_decision # "yes") =>
        /\ CallsOf("search") = {}
        /\ CallsOf("relevance") = {}
        /\ CallsOf("support") = {}
        /\ CallsOf("utility") = {}
        /\ Cardinality(CallsOf("generation")) <= 1
        /\ g_pc \in {"plain", "done"}
        /\ g_pc = "done" =>
             /\ Len(g_returned) = 1
             /\ g_calls = <<Call("retrieval", "", retrieval_decision),
                            Call("generation", "No retrieval necessary.", g_returned[1])>>

\* A run that was answered 'Yes.' has returned.
C17_Witness ==
    /\ g_pc = "done"
    /\ retrieval_decision = "yes."
    /\ g_returned = <<"r2">>

\* C18: whenever a retrieved context is judged 'relevant', every generation
\* call is given a context that was retrieved and judged 'relevant' and not
\* otherwise, and the response returned is the response of such a call.
C18_RelevanceFiltering ==
    (\E c \in Range(contexts) : JudgedRelevant(c)) =>
        /\ \A i \in CallsOf("generation") :
             /\ g_calls[i].context \in Range(contexts)
             /\ JudgedRelevant(g_calls[i].context)
             /\ ~JudgedOtherwise(g_calls[i].context)
        /\ g_pc = "done" =>
             /\ Len(g_returned) = 1
             /\ \E i \in CallsOf("generation") :
                  /\ g_calls[i].value = g_returned[1]
                  /\ JudgedRelevant(g_calls[i].context)

\* Three contexts retrieved, the second judged 'relevant.', the others
\* 'relevant' and 'irrelevant'; two responses generated, one returned.
C18_Witness ==
    /\ g_pc = "done"
    /\ Len(contexts) = 3
    /\ JudgedRelevant("c1")
    /\ g_calls[4].value = "relevant."
    /\ JudgedRelevant("c3")
    /\ Len(responses) = 2
    /\ Len(g_returned) = 1

\* C19: the response returned is the best by support, then utility: it is one
\* of the responses generated; it is 'fully supported' when one of them is;
\* and no response of its support class has a higher utility.
C19_BestBySupportThenUtility ==
    (g_pc = "done" /\ responses # <<>>) =>
        /\ best_response \in Range(responses)
        /\ g_returned = <<best_response[1]>>
        /\ (\E x \in Range(responses) : FullySupported(x)) => FullySupported(best_response)
        /\ \A x \in Range(responses) :
             (FullySupported(x) <=> FullySupported(best_response)) =>
                 x[3] <= best_response[3]

\* A fully supported response of utility 1 is returned over a partially
\* supported one of utility 3 and a 'fully supported.' one of utility 2.
C19_Witness ==
    /\ g_pc = "done"
    /\ responses = <<<<"r1", "partially supported", 3>>,
                     <<"r2", "fully supported", 1>>,
                     <<"r1", "fully supported.", 2>>>>
    /\ g_returned = <<"r2">>

\* --------------------------------------------------- feedback log: claims
\* The file that holds the given feedbacks, one dumped object per line.
RECURSIVE LogOf(_)
LogOf(feedbacks) ==
    IF feedbacks = <<>> THEN <<>>
    ELSE JsonDumps(Head(feedbacks)) \o <<"\n">> \o LogOf(Tail(feedbacks))

FeedbackKeys == {"query", "response", "relevance", "quality", "comments"}

\* C20: from an absent or empty log, after any store_feedback calls the file
\* holds one line per call, in call order, the earlier lines as they were
\* written; load_feedback_data returns exactly the feedbacks stored, in call
\* order, each with the fields query, response, relevance, quality, comments.
C20_FeedbackLogRoundTrip ==
    /\ (l_pc # "off") =>
         /\ log_file = LogOf(stored)
         /\ Len(FileLines(log_file)) = Len(stored)
    /\ (l_pc = "loaded") =>
         /\ l_outcome = "returned"
         /\ feedback_data = stored
         /\ \A i \in 1..Len(feedback_data) : DOMAIN feedback_data[i] = FeedbackKeys

\* Two feedbacks stored and loaded, the first with a line break in its
\* query and a quote, a comma and a brace in its response, the second with a
\* backslash before an n in its comments, and a rating of 4.5 cut to 4.
C20_Witness ==
    /\ l_pc = "loaded"
    /\ Len(feedback_data) = 2
    /\ feedback_data[1].query = <<"a", "\n", "b">>
    /\ feedback_data[1].response = <<"\"", ",", "}">>
    /\ feedback_data[1].relevance = 4
    /\ feedback_data[2].comments = <<"\\", "n">>

\* ------------------------------------- adjust_relevance_scores: claims
\* The relevance of the records on which the judge answered 'Yes' for
\* docs[i], in either case of the letters.
YesRelevances(i) ==
    SelectSeq([j \in 1..Len(a_feedback) |-> <<a_feedback[j], a_answers[i][j]>>],
              LAMBDA p : p[2] \in {"Yes", "yes"})

\* C21: a document on which the judge answered 'Yes' for at least one
\* feedback record has its relevance_score multiplied by the average
\* relevance of those records divided by 3 (unchanged at 3, higher above,
\* lower below); a document with no such record keeps its score.
C21_ScoreAdjustedByFeedback ==
    \A i \in 1..Len(a_answers) :
        LET yes == YesRelevances(i)
            total == SumOf([j \in 1..Len(yes) |-> yes[j][1]])
        IN  IF yes = <<>> THEN a_scores[i] = a_given[i]
            ELSE /\ a_scores[i] =
                      FMul(a_given[i], FDiv(FDiv(Rat(total, 1), Rat(Len(yes), 1)), Rat(3, 1)))
                 /\ (total = 3 * Len(yes)) => a_scores[i] = a_given[i]
                 /\ (total > 3 * Len(yes)) => FLt(a_given[i], a_scores[i])
                 /\ (total < 3 * Len(yes)) => FLt(a_scores[i], a_given[i])

SharedCharacters(c, d) == Range(c.page_content) \cap Range(d.page_content)

\* C22: the chunks carry the indices 0, 1, .. in the order of the text; for
\* 0 <= chunk_overlap < chunk_size chunk i is
\* text[i * (chunk_size - chunk_overlap) : i * (chunk_size - chunk_overlap) + chunk_size],
\* every character of the text is in a chunk once the split has returned, and
\* two consecutive chunks of chunk_size characters share chunk_overlap
\* characters: the last of the one, the first of the other.
C22_ChunksOfTheSplit ==
    /\ \A i \in 1..Len(chunks) : chunks[i].index = i - 1
    /\ (chunk_overlap < chunk_size) =>
         /\ \A i \in 1..Len(chunks) :
              chunks[i].page_content =
                  PySlice(text, ChunkStart(i - 1), ChunkStart(i - 1) + chunk_size)
         /\ (w_pc \notin {"off", "split"}) =>
              \A p \in 1..Len(text) :
                  \E i \in 1..Len(chunks) : text[p] \in Range(chunks[i].page_content)
         /\ \A i \in 1..(Len(chunks) - 1) :
              (Len(chunks[i].page_content) = chunk_size
                    /\ Len(chunks[i + 1].page_content) = chunk_size) =>
                 /\ Cardinality(SharedCharacters(chunks[i], chunks[i + 1])) = chunk_overlap
                 /\ PySlice(chunks[i].page_content, chunk_size - chunk_overlap, chunk_size)
                      = PySlice(chunks[i + 1].page_content, 0, chunk_overlap)

\* A text of 5 characters split into chunks of 3 with an overlap of 2: three
\* full chunks, then two cut by the end of the text.
C22_Witness ==
    /\ w_pc = "indexed"
    /\ Len(text) = 5
    /\ chunk_size = 3
    /\ chunk_overlap = 2
    /\ Len(chunks) = 5
    /\ chunks[3].page_content = <<3, 4, 5>>
    /\ chunks[5].page_content = <<5>>

\* The split ends for these arguments: an empty text, or chunk_size > chunk_overlap.
SplitEnds == text = <<>> \/ chunk_size > chunk_overlap

\* ceil(a / b) for b > 0.
CeilDiv(a, b) == (a + b - 1) \div b

\* C23: for non-negative sizes the split ends exactly when the text is empty
\* or chunk_size > chunk_overlap.  When it ends it has made
\* ceil(len(text) / (chunk_size - chunk_overlap)) chunks (none of an empty
\* text); otherwise start never passes the end of the text and the loop goes
\* on.
C23_SplitTermination ==
    /\ [](w_pc # "off" /\ SplitEnds /\ w_pc # "split" =>
            Len(chunks) = IF text = <<>> THEN 0
                          ELSE CeilDiv(Len(text), chunk_size - chunk_overlap))
    /\ (w_pc # "off" /\ SplitEnds) ~> (w_pc # "split")
    /\ [](w_pc # "off" /\ ~SplitEnds =>
            /\ w_pc = "split"
            /\ start <= 0
            /\ SplitContinues(start, text))

\* A split of 5 characters in steps of 2 has returned its 3 chunks.
C23_Witness ==
    /\ w_pc = "indexed"
    /\ Len(text) = 5
    /\ chunk_size = 3
    /\ chunk_overlap = 1
    /\ Len(chunks) = 3
    /\ start = 6

\* ---------------------------------------------- self_rag: the steps, claims
\* C24: when retrieval is chosen and no retrieved context is judged
\* 'relevant' (also when nothing is retrieved), self_rag makes one generation
\* call, with the context 'No relevant context found.', returns the response
\* of that call, and asks for no support and no utility.
C24_NoRelevantContext ==
    (/\ g_pc = "done"
     /\ CallsOf("search") # {}
     /\ \A c \in Range(contexts) : ~JudgedRelevant(c)) =>
        /\ Cardinality(CallsOf("generation")) = 1
        /\ \A i \in CallsOf("generation") :
              /\ g_calls[i].context = "No relevant context found."
              /\ g_returned = <<g_calls[i].value>>
              /\ i = Len(g_calls)
        /\ CallsOf("support") = {}
        /\ CallsOf("utility") = {}

\* Two contexts retrieved, judged 'irrelevant' and 'relevant.'.
C24_Witness ==
    /\ g_pc = "done"
    /\ contexts = <<"c1", "c2">>
    /\ g_calls[3].value = "irrelevant"
    /\ g_calls[4].value = "relevant."
    /\ g_calls[5] = Call("generation", "No relevant context found.", "r1")
    /\ g_returned = <<"r1">>

\* The calls to the language model: every call but the similarity search.
ModelCalls == Len(g_calls) - Cardinality(CallsOf("search"))

\* The number of retrieved contexts judged 'relevant'.
RelevantCount ==
    Cardinality({i \in CallsOf("relevance") : g_calls[i].value = "relevant"})

\* The order of the steps, in the calls made so far.
StepsInOrder ==
    /\ \A i \in CallsOf("retrieval") : i = 1
    /\ \A i \in CallsOf("search") : i = 2
    /\ \A i \in CallsOf("relevance") : \E j \in CallsOf("search") : j < i
    /\ \A i \in CallsOf("relevance"), j \in CallsOf("generation") : i < j
    /\ (RelevantCount > 0) =>
         /\ \A i \in CallsOf("generation") :
              /\ i + 2 <= Len(g_calls)
              /\ g_calls[i + 1].op = "support"
              /\ g_calls[i + 1].context = g_calls[i].context
              /\ g_calls[i + 2].op = "utility"
              /\ g_calls[i + 2].context = g_calls[i].value
         /\ \A i \in CallsOf("support") : i > 1 /\ g_calls[i - 1].op = "generation"
         /\ \A i \in CallsOf("utility") : i > 1 /\ g_calls[i - 1].op = "support"

\* C25: every run of self_rag ends, with one response returned, its steps in
\* this order: the retrieval decision before the search, the search before
\* every relevance evaluation, every relevance evaluation before the first
\* generation, and for each relevant context generation, support, utility.
\* With d contexts retrieved, m of them relevant, it has made 1 + d + 3m
\* calls to the model when m > 0 and 1 + d + 1 when m = 0.
C25_TerminationAndStepOrder ==
    /\ <>(g_pc = "done")
    /\ [](Len(g_returned) = IF g_pc = "done" THEN 1 ELSE 0)
    /\ [](g_calls # <<>> => g_calls[1].op = "retrieval")
    /\ []StepsInOrder
    /\ [](g_pc = "done" =>
            /\ Cardinality(CallsOf("relevance")) = Len(contexts)
            /\ ModelCalls = IF RelevantCount > 0
                            THEN 1 + Len(contexts) + 3 * RelevantCount
                            ELSE 1 + Len(contexts) + 1)

\* Three contexts retrieved, two of them relevant: 1 + 3 + 6 calls to the
\* model after the similarity search.
C25_Witness ==
    /\ g_pc = "done"
    /\ Len(contexts) = 3
    /\ RelevantCount = 2
    /\ ModelCalls = 10
    /\ g_calls[6].op = "generation"
    /\ g_calls[11].op = "utility"
    /\ Len(g_returned) = 1

\* ------------------------------------------------ fusion: dominance, claims
\* The rank of position i (counted from 1) in the sorted positions (counted
\* from 0).
RankOf(i) == CHOOSE p \in 1..Len(sorted_indices) : sorted_indices[p] = i - 1

\* C27: for every alpha in [0, 1] and non-degenerate V and B of equal length,
\* a position i with V_i <= V_j and B_i >= B_j has a combined score
\* s_i >= s_j; when V_i < V_j, B_i > B_j and 0 < alpha < 1, position i comes
\* before position j in the ranking, and j is among the first k only if i is.
C27_MonotoneUnderDominance ==
    (SameLength /\ NonDegenerate(RawV) /\ NonDegenerate(raw_bm25) /\ Combined) =>
        \A i, j \in 1..ntotal :
            /\ (FLe(RawV[i], RawV[j]) /\ FLe(raw_bm25[j], raw_bm25[i])) =>
                  FLe(combined_scores[j], combined_scores[i])
            /\ (/\ FLt(RawV[i], RawV[j])
                /\ FLt(raw_bm25[j], raw_bm25[i])
                /\ FLt(Zero, alpha)
                /\ FLt(alpha, One)) =>
                  /\ RankOf(i) < RankOf(j)
                  /\ RankOf(j) <= k => RankOf(i) <= k

\* Position 1 (counted from 0) dominates position 2 and is ranked before it;
\* position 0, nearest but with the lowest BM25 score, comes last.
C27_Witness ==
    /\ f_outcome = "returned" /\ k = 2
    /\ alpha = Rat(1, 4)
    /\ RawV = <<Rat(1, 10), Rat(1, 2), Rat(9, 10)>>
    /\ raw_bm25 = <<Rat(1, 1), Rat(10, 1), Rat(5, 1)>>
    /\ combined_scores = <<Rat(1, 4), Rat(7, 8), Rat(1, 3)>>
    /\ sorted_indices = <<1, 2, 0>>

====
